---- MODULE Spec2Model ----
(***************************************************************************)
(* Model of mfma_on_cpu_threads.cc: one AMDGPU MFMA instruction of shape   *)
(* 16x16x4 over f32, emulated by 64 CPU threads that publish their operand *)
(* scalars into two static tiles, meet at a static std::barrier and then   *)
(* each accumulate their 4-element fragment from the whole tiles.          *)
(*                                                                         *)
(* Floats are modelled by integers: every operand drawn below is a small   *)
(* integer and every sum stays far below 2^24, where float arithmetic on   *)
(* integers is exact.                                                      *)
(*                                                                         *)
(* Granularity: one step per access of a worker to memory that the threads *)
(* share (each tile write, each access to the guard variable of the static *)
(* barrier, its construction, the barrier arrival, the barrier release,    *)
(* each tile read of the loop), with the thread-local code that follows.   *)
(*                                                                         *)
(* Scheduling: Next is the program, where main and every worker that can   *)
(* run take their steps in any order.  With 64 workers these interleavings *)
(* are far too many to enumerate (any subset of the 64 slots can be the    *)
(* published one), so the properties are checked under NextWindow, which   *)
(* takes the steps of Next in a bounded order: threads come to run in the  *)
(* order of their creation, and a thread runs (or is created) only while   *)
(* no ready thread is MaxRunning or more places behind it.  The threads    *)
(* inside that window interleave in every possible way.  The window is a   *)
(* bound of the exploration, it is no part of the program.                 *)
(*                                                                         *)
(* Out-of-bounds accesses: what they touch depends on where the build put  *)
(* the arrays, the barrier and its guard variable, which the variable      *)
(* build records for the builds g++ 12.2 makes of the source.  A read of   *)
(* memory that is none of the modelled objects yields AnyFloat, the value  *)
(* that stands for every float there may be.                               *)
(***************************************************************************)
EXTENDS Integers, Sequences, FiniteSets, TLC

\* src line 22
threads_per_subgroup == 64

\* Number of workers that run interleaved at any one time (the window of
\* consecutive threads that may be on a core).
MaxRunning == 2
\* Operand families other than the test matrices: seeds 1 .. MaxSeed.
MaxSeed == 1
\* A partial launch misses between 1 and MaxMissing lanes.
MaxMissing == 1

Lanes == 0 .. (threads_per_subgroup - 1)
\* floatx4_t: four floats, indexed 0..3.
Frag == 0 .. 3
ZeroFrag == [pp \in Frag |-> 0]

VARIABLES
  build,    \* where the build placed the statics and main's arrays (never changes)
  launch,   \* the launch: nthreads, rounds, tid_arg, assigns, c_init (never changes)
  a, b,     \* a[r], b[r]: the operand arrays passed to the r-th kernel invocation
  c,        \* the fragment array of main
  tid,      \* thread_local int tid, per worker
  a_tile, b_tile,   \* the static tiles of cpu_mfma_f32_16x16x4f32
  pad,      \* the floats of padding next to the tiles
  guard,    \* the guard variable of the static barrier, see GuardValues
  expected, \* per worker, the guard value it is about to sleep on ("none": none)
  built,    \* how many times the static barrier has been constructed
  barrier,  \* the static std::barrier: arrivals still expected, and phase
  pc,       \* position of each worker
  round,    \* which kernel invocation a worker is in
  arg_a, arg_b, arg_c,  \* parameters a, b, c of cpu_mfma_f32_16x16x4f32
  m, n, k, p,   \* locals m, n and loop counters k, p
  a_val,    \* the a_tile element loaded for the product of line 48 (0 when none is)
  token,    \* the barrier phase a worker arrived in
  ret,      \* per worker, the fragments returned by its invocations so far
  main_pc,  \* position of main
  i,        \* loop counter of the launch loop in main
  printed,  \* the matrix read by print_c_matrix("Result matrix", c)
  proc,     \* "running", "assert_failed" or "crashed"
  ub        \* TRUE once an out-of-bounds access has happened

vars == <<build, launch, a, b, c, tid, a_tile, b_tile, pad, guard, expected,
          built, barrier, pc, round, arg_a, arg_b, arg_c, m, n, k, p, a_val, token,
          ret, main_pc, i, printed, proc, ub>>

\* C++ integer division and remainder truncate towards zero.
CDiv(x, y) == IF x >= 0 THEN x \div y ELSE -((-x) \div y)
CMod(x, y) == x - y * CDiv(x, y)

(***************************************************************************)
(* Operands.                                                               *)
(***************************************************************************)
\* init_test_matrices
TestA == [j \in Lanes |-> IF (j \div 16) = (j % 4) THEN 1 ELSE 0]
TestB == [j \in Lanes |-> IF (j \div 16) = (j % 4) THEN 1 ELSE 0]
TestC == [j \in Lanes |-> [pp \in Frag |-> IF pp = 0 THEN j ELSE 0]]

\* Other callers' operands: small integers that differ from lane to lane.
SeedA(s) == [j \in Lanes |-> ((s + 2) * j + 1) % 5]
SeedB(s) == [j \in Lanes |-> ((s + 3) * j + 2) % 7]
SeedC(s) == [j \in Lanes |-> [pp \in Frag |-> (j + 2 * pp + s) % 4]]

\* Scenario 0 is the test matrices of main, scenario s > 0 the seeded ones.
Scenarios == 0 .. MaxSeed
InA(sc) == IF sc = 0 THEN TestA ELSE SeedA(sc)
InB(sc) == IF sc = 0 THEN TestB ELSE SeedB(sc)
InC(sc) == IF sc = 0 THEN TestC ELSE SeedC(sc)

(***************************************************************************)
(* Memory outside the arrays.                                              *)
(***************************************************************************)
\* The content of memory that is none of the modelled objects: a float the
\* model does not follow.  It stands for every float value (0, a NaN and the
\* bytes of a pointer included), and whatever is computed from it is again
\* such a float.  No operand and no sum of the model is negative, so the
\* number is free to stand for it.
AnyFloat == 0 - 1000000

\* The statics of lines 34-41 as g++ places them:
\*   "a_b" (-O0): 28 bytes of padding, a_tile, b_tile, the barrier, its
\*         guard variable;
\*   "b_a" (-O1, -O2, -O3, -Os): the guard variable (b_tile - 64 bytes), the
\*         barrier (b_tile - 32 bytes; its last four bytes are padding),
\*         b_tile, a_tile.
StaticsLayouts == {"a_b", "b_a"}
\* The arrays of main (lines 109-111) on main's stack, without a gap:
\* c, b, a (-O0, -O1) or a, b, c (-O2, -O3, -Os).
StackLayouts == {"c_b_a", "a_b_c"}
\* A build: the two layouts, and whether the constructor of the barrier
\* stores the last eight bytes of the barrier at once, the four bytes of
\* padding at its end included (wipes; -O2, -O3, -Os), or its fields only.
\* The build of the command in the source's header, without optimisation.
BuildO0 == [statics |-> "a_b", stack |-> "c_b_a", wipes |-> FALSE]
BuildO1 == [statics |-> "b_a", stack |-> "c_b_a", wipes |-> FALSE]
\* -O3 and -Os place the objects, and construct the barrier, as -O2 does.
BuildO2 == [statics |-> "b_a", stack |-> "a_b_c", wipes |-> TRUE]
Builds == {BuildO0, BuildO1, BuildO2}

\* The place of a_tile[idx] (which = "a") or b_tile[idx] (which = "b"),
\* in floats from the start of the tile that comes first.
TilePlace(which, idx) ==
  IF (build.statics = "a_b") = (which = "a") THEN idx
  ELSE threads_per_subgroup + idx
\* The floats of padding the model follows, by their place.
PadCells == (0 - 4) .. (0 - 1)
\* The places below the first tile that are padding: in "a_b" the end of
\* the padding before a_tile, in "b_a" the last four bytes of the barrier.
Padding == IF build.statics = "a_b" THEN PadCells ELSE {0 - 1}
\* The place of the guard variable in "b_a".
GuardPlace == 0 - 16

\* The object that a_tile[idx] or b_tile[idx] designates: a slot of a tile,
\* a float of padding, the guard variable, or memory the model does not
\* follow ("none").
TileSlot(which, idx) ==
  IF idx \in Lanes THEN [tile |-> which, at |-> idx]
  ELSE LET f == TilePlace(which, idx)
       IN  IF f \in Lanes
           THEN [tile |-> IF build.statics = "a_b" THEN "a" ELSE "b", at |-> f]
           ELSE IF f - threads_per_subgroup \in Lanes
           THEN [tile |-> IF build.statics = "a_b" THEN "b" ELSE "a",
                 at |-> f - threads_per_subgroup]
           ELSE IF f \in Padding THEN [tile |-> "pad", at |-> f]
           ELSE IF build.statics = "b_a" /\ f = GuardPlace
           THEN [tile |-> "guard", at |-> 0]
           ELSE [tile |-> "none", at |-> 0]

\* The value read through a_tile[idx] or b_tile[idx].
ReadTile(which, idx) ==
  LET s == TileSlot(which, idx)
  IN  IF s.tile = "a" THEN a_tile[s.at]
      ELSE IF s.tile = "b" THEN b_tile[s.at]
      ELSE IF s.tile = "pad" THEN pad[s.at]
      ELSE AnyFloat

\* What a write does to the process: a write into memory the model does not
\* follow may go unnoticed or end the process.
WriteOutcomes(tracked) ==
  IF tracked THEN {"running"} ELSE {"running", "crashed"}

\* The guard variable of line 41, an int that __cxa_guard_acquire and
\* __cxa_guard_release keep:
\*   "unset"    0, the barrier is not constructed;
\*   "set"      first byte non-zero, the barrier is constructed;
\*   "pending"  0x100, a worker is constructing the barrier;
\*   "waited"   the waiting bit (0x10000) is set: a worker is constructing
\*              the barrier and others may sleep until it has;
\*   "junk"     any other value.
GuardValues == {"unset", "set", "pending", "waited", "junk"}

\* The guard variable after a float has been stored over it.  0.0f is four
\* zero bytes; any other float the operands hold (a small integer) has a
\* zero first byte, no waiting bit and is not 0x100.
GuardAfter(v) ==
  IF v = 0 THEN {"unset"}
  ELSE IF v = AnyFloat THEN GuardValues
  ELSE {"junk"}

\* line 38 or 39: `a_tile[idx] = v` or `b_tile[idx] = v`.
TileStore(which, idx, v) ==
  LET s == TileSlot(which, idx)
  IN  /\ a_tile' = IF s.tile = "a" THEN [a_tile EXCEPT ![s.at] = v] ELSE a_tile
      /\ b_tile' = IF s.tile = "b" THEN [b_tile EXCEPT ![s.at] = v] ELSE b_tile
      /\ pad' = IF s.tile = "pad" THEN [pad EXCEPT ![s.at] = v] ELSE pad
      /\ guard' \in IF s.tile = "guard" THEN GuardAfter(v) ELSE {guard}
      /\ proc' \in WriteOutcomes(s.tile # "none")

\* main's stack, counted in floats from the start of the array that comes
\* first: c takes 4 * 64 floats, a and b 64 each.
BBase == 4 * threads_per_subgroup
ABase == 5 * threads_per_subgroup
StackEnd == 6 * threads_per_subgroup
\* The place of a[idx], of b[idx] and of c[idx][0].
StackPlace(which, idx) ==
  IF build.stack = "c_b_a"
  THEN IF which = "c" THEN 4 * idx
       ELSE IF which = "b" THEN BBase + idx
       ELSE ABase + idx
  ELSE IF which = "a" THEN idx
       ELSE IF which = "b" THEN threads_per_subgroup + idx
       ELSE 2 * threads_per_subgroup + 4 * idx
\* The array element at place f (for c, `at` counts floats: element at % 4
\* of fragment at \div 4), or memory the model does not follow.
StackSlot(f) ==
  IF f < 0 \/ f >= StackEnd THEN [arr |-> "none", at |-> 0]
  ELSE IF build.stack = "c_b_a"
  THEN IF f < BBase THEN [arr |-> "c", at |-> f]
       ELSE IF f < ABase THEN [arr |-> "b", at |-> f - BBase]
       ELSE [arr |-> "a", at |-> f - ABase]
  ELSE IF f < threads_per_subgroup THEN [arr |-> "a", at |-> f]
       ELSE IF f < 2 * threads_per_subgroup
       THEN [arr |-> "b", at |-> f - threads_per_subgroup]
       ELSE [arr |-> "c", at |-> f - 2 * threads_per_subgroup]
\* The float at place f, for the operands of round r.
StackFloat(r, f) ==
  LET s == StackSlot(f)
  IN  IF s.arr = "c" THEN c[s.at \div 4][s.at % 4]
      ELSE IF s.arr = "b" THEN b[r][s.at]
      ELSE IF s.arr = "a" THEN a[r][s.at]
      ELSE AnyFloat

\* line 58: a[tid], b[tid] and c[tid], for the operands of round r.
ReadA(r, idx) ==
  IF idx \in Lanes THEN a[r][idx] ELSE StackFloat(r, StackPlace("a", idx))
ReadB(r, idx) ==
  IF idx \in Lanes THEN b[r][idx] ELSE StackFloat(r, StackPlace("b", idx))
ReadC(r, idx) ==
  IF idx \in Lanes THEN c[idx]
  ELSE [q \in Frag |-> StackFloat(r, StackPlace("c", idx) + q)]

\* line 58: `c[idx] = frag`, for a worker in round r.  A fragment is four
\* floats at a place that is a multiple of four, so the store falls into
\* one array.
FragStore(r, idx, frag) ==
  LET s == StackSlot(StackPlace("c", idx))
  IN  /\ c' = IF idx \in Lanes THEN [c EXCEPT ![idx] = frag] ELSE c
      /\ b' = IF idx \notin Lanes /\ s.arr = "b"
              THEN [b EXCEPT ![r] = [j \in Lanes |->
                       IF j - s.at \in Frag THEN frag[j - s.at] ELSE @[j]]]
              ELSE b
      /\ a' = IF idx \notin Lanes /\ s.arr = "a"
              THEN [a EXCEPT ![r] = [j \in Lanes |->
                       IF j - s.at \in Frag THEN frag[j - s.at] ELSE @[j]]]
              ELSE a
      /\ proc' \in WriteOutcomes(idx \in Lanes \/ s.arr # "none")

(***************************************************************************)
(* The kernel's arithmetic.                                                *)
(***************************************************************************)
\* line 31
AssertOK(t) == t < threads_per_subgroup
\* Mutant: the row block scaled by 16 instead of 4.
FragMScale16(t) == 16 * CDiv(t, 16)
\* line 44
FragM(t) == 4 * CDiv(t, 16)
\* Mutant: the column taken modulo 8.
FragNMod8(t) == CMod(t, 8)
\* line 45
FragN(t) == CMod(t, 16)
\* Mutant: the k stride of the A tile taken as 4 instead of 16.
AIndexStride4(kk, mm, pp) == 4 * kk + mm + pp
\* line 48, index into a_tile
AIndex(kk, mm, pp) == 16 * kk + mm + pp
\* Mutant: the B tile read at the lane's column only, whatever k is.
BIndexNoK(kk, nn) == nn
\* line 48, index into b_tile
BIndex(kk, nn) == 16 * kk + nn

\* Float product and sum.
FMul(x, y) == IF x = AnyFloat \/ y = AnyFloat THEN AnyFloat ELSE x * y
FAdd(x, y) == IF x = AnyFloat \/ y = AnyFloat THEN AnyFloat ELSE x + y

\* Mutant: the fragment looked up at c[m + n] instead of c[4 * m + n].
PrintCUnscaled(cc) ==
  [row \in 0 .. 15 |-> [col \in 0 .. 15 |->
      cc[(row - (row % 4)) + col][row % 4]]]
\* print_c_matrix: row m + p, column n is c[4 * m + n][p], m in {0, 4, 8, 12}.
PrintC(cc) ==
  [row \in 0 .. 15 |-> [col \in 0 .. 15 |->
      cc[4 * (row - (row % 4)) + col][row % 4]]]

(***************************************************************************)
(* Scheduling.                                                             *)
(***************************************************************************)
\* Mutant: no wait at the barrier at all.
ReleasedAtOnce(w) == TRUE
\* Mutant: a barrier that stays open once its first phase has completed.
ReleasedOnceOpen(w) == barrier.phase > 0
\* std::barrier::wait returns once the phase of the arrival has completed.
Released(w) == barrier.phase # token[w]

\* A worker asleep in __cxa_guard_acquire (line 41) is blocked until it is
\* woken; a worker in wait is blocked until its phase completes.
Runnable(w) ==
  \/ pc[w] \in {"start", "call", "pub_a", "pub_b", "init", "futex",
                "construct", "release", "arrive", "load_a", "load_b", "ret"}
  \/ pc[w] = "wait" /\ Released(w)

\* Worker w can take a step: the process is alive and w is not blocked.
OnCore(w) ==
  /\ proc = "running"
  /\ Runnable(w)

\* The bound of the exploration: no ready worker is MaxRunning or more
\* threads behind thread w.
NoneBehind(w) == \A v \in 0 .. (w - MaxRunning) : ~Runnable(v)

(***************************************************************************)
(* Initial states.                                                         *)
(***************************************************************************)
\* Mutant: the lane id starts as -1, "not set".
TidDefaultUnset == 0 - 1
\* line 26: a thread_local int without initializer starts as 0.
TidDefault == 0

InitCommon ==
  /\ tid = [w \in Lanes |-> TidDefault]
  /\ a_tile = [j \in Lanes |-> 0]
  /\ b_tile = [j \in Lanes |-> 0]
  /\ pad = [f \in PadCells |-> 0]
  /\ guard = "unset"
  /\ expected = [w \in Lanes |-> "none"]
  /\ built = 0
  /\ barrier = [count |-> 0, phase |-> 0]
  /\ pc = [w \in Lanes |-> "unspawned"]
  /\ round = [w \in Lanes |-> 1]
  /\ arg_a = [w \in Lanes |-> 0]
  /\ arg_b = [w \in Lanes |-> 0]
  /\ arg_c = [w \in Lanes |-> ZeroFrag]
  /\ m = [w \in Lanes |-> 0]
  /\ n = [w \in Lanes |-> 0]
  /\ k = [w \in Lanes |-> 0]
  /\ p = [w \in Lanes |-> 0]
  /\ a_val = [w \in Lanes |-> 0]
  /\ token = [w \in Lanes |-> 0]
  /\ ret = [w \in Lanes |-> <<>>]
  /\ main_pc = "launch"
  /\ i = 0
  /\ printed = <<>>
  /\ proc = "running"
  /\ ub = FALSE

\* main: the launch block, one kernel invocation per worker.
MainLaunch(cc) ==
  [nthreads |-> threads_per_subgroup, rounds |-> 1,
   tid_arg |-> [w \in Lanes |-> w], assigns |-> [w \in Lanes |-> TRUE],
   c_init |-> cc]

Init ==
  /\ \E sc \in Scenarios :
       /\ a = <<InA(sc)>>
       /\ b = <<InB(sc)>>
       /\ c = InC(sc)
       /\ launch = MainLaunch(InC(sc))
  /\ build = BuildO0
  /\ InitCommon

(***************************************************************************)
(* main.                                                                   *)
(***************************************************************************)
\* lines 120-126: threads.emplace_back(thread_func, i)
Spawn ==
  /\ proc = "running"
  /\ main_pc = "launch"
  /\ i < launch.nthreads
  /\ pc' = [pc EXCEPT ![i] = "start"]
  /\ i' = i + 1
  /\ UNCHANGED <<build, launch, expected, a, b, c, tid, a_tile, b_tile, pad,
                 guard, built, barrier, round, arg_a, arg_b, arg_c, m, n, k,
                 p, a_val, token, ret, main_pc, printed, proc, ub>>

\* Mutant: only the thread created last is joined.
LastJoined == pc[launch.nthreads - 1] = "done"
\* line 127: the vector of jthreads is destroyed, which joins every thread.
AllJoined == \A w \in Lanes : w < launch.nthreads => pc[w] = "done"

Join ==
  /\ proc = "running"
  /\ main_pc = "launch"
  /\ i = launch.nthreads
  /\ AllJoined
  /\ main_pc' = "print"
  /\ UNCHANGED <<build, launch, expected, a, b, c, tid, a_tile, b_tile, pad,
                 guard, built, barrier, pc, round, arg_a, arg_b, arg_c, m, n,
                 k, p, a_val, token, ret, i, printed, proc, ub>>

\* line 129
PrintResult ==
  /\ proc = "running"
  /\ main_pc = "print"
  /\ printed' = PrintC(c)
  /\ main_pc' = "exit"
  /\ UNCHANGED <<build, launch, expected, a, b, c, tid, a_tile, b_tile, pad,
                 guard, built, barrier, pc, round, arg_a, arg_b, arg_c, m, n,
                 k, p, a_val, token, ret, i, proc, ub>>

\* line 130: main returns and the static barrier of line 41 is destroyed,
\* once for each time it was constructed; the second destruction of the
\* same object ends the process (glibc aborts in free).
Exit ==
  /\ proc = "running"
  /\ main_pc = "exit"
  /\ main_pc' = "exited"
  /\ proc' = IF built > 1 THEN "crashed" ELSE proc
  /\ UNCHANGED <<build, launch, expected, a, b, c, tid, a_tile, b_tile, pad,
                 guard, built, barrier, pc, round, arg_a, arg_b, arg_c, m, n,
                 k, p, a_val, token, ret, i, printed, ub>>

(***************************************************************************)
(* A worker.                                                               *)
(***************************************************************************)
\* Mutant: the thread function reads main's loop counter (captured by
\* reference) instead of its own argument.
StartLoopCounter(w) ==
  /\ pc[w] = "start"
  /\ OnCore(w)
  /\ tid' = [tid EXCEPT ![w] = i]
  /\ pc' = [pc EXCEPT ![w] = "call"]
  /\ UNCHANGED <<build, launch, expected, a, b, c, a_tile, b_tile, pad, guard,
                 built, barrier, round, arg_a, arg_b, arg_c, m, n, k, p,
                 a_val, token, ret, main_pc, i, printed, proc, ub>>
\* Mutant: the worker does not set its lane id.
StartNoTid(w) ==
  /\ pc[w] = "start"
  /\ OnCore(w)
  /\ pc' = [pc EXCEPT ![w] = "call"]
  /\ UNCHANGED <<build, launch, expected, a, b, c, tid, a_tile, b_tile, pad,
                 guard, built, barrier, round, arg_a, arg_b, arg_c, m, n, k,
                 p, a_val, token, ret, main_pc, i, printed, proc, ub>>
\* line 122: tid = tid_arg
Start(w) ==
  /\ pc[w] = "start"
  /\ OnCore(w)
  /\ tid' = [tid EXCEPT ![w] = IF launch.assigns[w] THEN launch.tid_arg[w] ELSE @]
  /\ pc' = [pc EXCEPT ![w] = "call"]
  /\ UNCHANGED <<build, launch, expected, a, b, c, a_tile, b_tile, pad, guard,
                 built, barrier, round, arg_a, arg_b, arg_c, m, n, k, p,
                 a_val, token, ret, main_pc, i, printed, proc, ub>>

\* line 58, the arguments a[tid], b[tid], c[tid], and line 31, the assertion.
Invoke(w) ==
  /\ pc[w] = "call"
  /\ OnCore(w)
  /\ arg_a' = [arg_a EXCEPT ![w] = ReadA(round[w], tid[w])]
  /\ arg_b' = [arg_b EXCEPT ![w] = ReadB(round[w], tid[w])]
  /\ arg_c' = [arg_c EXCEPT ![w] = ReadC(round[w], tid[w])]
  /\ ub' = (ub \/ tid[w] \notin Lanes)
  /\ IF AssertOK(tid[w])
     THEN /\ pc' = [pc EXCEPT ![w] = "pub_a"]
          /\ proc' = proc
     ELSE /\ pc' = [pc EXCEPT ![w] = "aborted"]
          /\ proc' = "assert_failed"
  /\ UNCHANGED <<build, launch, expected, a, b, c, tid, a_tile, b_tile, pad,
                 guard, built, barrier, round, m, n, k, p, a_val, token, ret,
                 main_pc, i, printed>>

\* line 38: a_tile[tid] = a
WriteA(w) ==
  /\ pc[w] = "pub_a"
  /\ OnCore(w)
  /\ TileStore("a", tid[w], arg_a[w])
  /\ ub' = (ub \/ tid[w] \notin Lanes)
  /\ pc' = [pc EXCEPT ![w] = "pub_b"]
  /\ UNCHANGED <<build, launch, expected, a, b, c, tid, built, barrier, round,
                 arg_a, arg_b, arg_c, m, n, k, p, a_val, token, ret, main_pc,
                 i, printed>>

\* line 39: b_tile[tid] = b
WriteB(w) ==
  /\ pc[w] = "pub_b"
  /\ OnCore(w)
  /\ TileStore("b", tid[w], arg_b[w])
  /\ ub' = (ub \/ tid[w] \notin Lanes)
  /\ pc' = [pc EXCEPT ![w] = "init"]
  /\ UNCHANGED <<build, launch, expected, a, b, c, tid, built, barrier, round,
                 arg_a, arg_b, arg_c, m, n, k, p, a_val, token, ret, main_pc,
                 i, printed>>

\* line 41, the test of the guard variable and __cxa_guard_acquire: a
\* worker that finds the barrier constructed goes on; one that finds the
\* guard unset marks it pending and is the one to construct; any other
\* finds a construction going on (or junk), sets the waiting bit if the
\* guard is just pending, and is about to sleep on the value it leaves.
GuardAcquire(w) ==
  /\ pc[w] = "init"
  /\ OnCore(w)
  /\ guard' = IF guard = "unset" THEN "pending"
              ELSE IF guard = "pending" THEN "waited"
              ELSE guard
  /\ expected' = [expected EXCEPT ![w] =
                    IF guard \in {"pending", "waited"} THEN "waited"
                    ELSE IF guard = "junk" THEN "junk"
                    ELSE @]
  /\ pc' = [pc EXCEPT ![w] =
               IF guard = "set" THEN "arrive"
               ELSE IF guard = "unset" THEN "construct"
               ELSE "futex"]
  /\ UNCHANGED <<build, launch, a, b, c, tid, a_tile, b_tile, pad, built,
                 barrier, round, arg_a, arg_b, arg_c, m, n, k, p, a_val,
                 token, ret, main_pc, i, printed, proc, ub>>

\* line 41, __cxa_guard_acquire: the futex wait.  The worker sleeps if the
\* guard still holds the value it saw, else it tries again.
FutexWait(w) ==
  /\ pc[w] = "futex"
  /\ OnCore(w)
  /\ pc' = [pc EXCEPT ![w] = IF guard = expected[w] THEN "asleep" ELSE "init"]
  /\ expected' = [expected EXCEPT ![w] = "none"]
  /\ UNCHANGED <<build, launch, a, b, c, tid, a_tile, b_tile, pad, guard,
                 built, barrier, round, arg_a, arg_b, arg_c, m, n, k, p,
                 a_val, token, ret, main_pc, i, printed, proc, ub>>

\* line 41, the constructor of the barrier and the registration of its
\* destructor.  A construction over a barrier that is in use forgets the
\* arrivals made so far; it may end the process when another worker is
\* between lines 41 and 42 or constructs the barrier too.
Construct(w) ==
  /\ pc[w] = "construct"
  /\ OnCore(w)
  /\ barrier' = [count |-> threads_per_subgroup, phase |-> 0]
  /\ built' = built + 1
  /\ pad' = IF build.wipes /\ build.statics = "b_a"
            THEN [pad EXCEPT ![0 - 1] = 0]
            ELSE pad
  /\ proc' \in WriteOutcomes(
         \A v \in Lanes \ {w} : pc[v] \notin {"arrive", "construct"})
  /\ pc' = [pc EXCEPT ![w] = "release"]
  /\ UNCHANGED <<build, launch, expected, a, b, c, tid, a_tile, b_tile, guard,
                 round, arg_a, arg_b, arg_c, m, n, k, p, a_val, token, ret,
                 main_pc, i, printed, ub>>

\* line 41, __cxa_guard_release: the guard is set, whatever it held, and if
\* it held the waiting bit the workers asleep on it are woken.
GuardRelease(w) ==
  /\ pc[w] = "release"
  /\ OnCore(w)
  /\ guard' = "set"
  /\ pc' = [v \in Lanes |->
               IF v = w THEN "arrive"
               ELSE IF pc[v] = "asleep" /\ guard = "waited" THEN "init"
               ELSE pc[v]]
  /\ UNCHANGED <<build, launch, expected, a, b, c, tid, a_tile, b_tile, pad,
                 built, barrier, round, arg_a, arg_b, arg_c, m, n, k, p,
                 a_val, token, ret, main_pc, i, printed, proc, ub>>

\* Mutant: the phase completes one arrival early.
ArriveAtEarly(bar) ==
  IF bar.count = 2
  THEN [count |-> threads_per_subgroup, phase |-> bar.phase + 1]
  ELSE [count |-> bar.count - 1, phase |-> bar.phase]
\* Mutant: the barrier expects one arrival more than there are lanes.
ArriveAtLate(bar) ==
  IF bar.count = 0
  THEN [count |-> threads_per_subgroup, phase |-> bar.phase + 1]
  ELSE [count |-> bar.count - 1, phase |-> bar.phase]
\* std::barrier::arrive: the last expected arrival completes the phase and
\* resets the count.
ArriveAt(bar) ==
  IF bar.count = 1
  THEN [count |-> threads_per_subgroup, phase |-> bar.phase + 1]
  ELSE [count |-> bar.count - 1, phase |-> bar.phase]

\* Mutant: arrive() in place of arrive_and_wait(): the lane goes on to the
\* loop without waiting.
ArriveNoWait(w) ==
  /\ pc[w] = "arrive"
  /\ OnCore(w)
  /\ token' = [token EXCEPT ![w] = barrier.phase]
  /\ barrier' = IF barrier.count = 1
                THEN [count |-> threads_per_subgroup, phase |-> barrier.phase + 1]
                ELSE [count |-> barrier.count - 1, phase |-> barrier.phase]
  /\ m' = [m EXCEPT ![w] = 4 * CDiv(tid[w], 16)]
  /\ n' = [n EXCEPT ![w] = CMod(tid[w], 16)]
  /\ k' = [k EXCEPT ![w] = 0]
  /\ p' = [p EXCEPT ![w] = 0]
  /\ pc' = [pc EXCEPT ![w] = "load_a"]
  /\ UNCHANGED <<build, launch, expected, a, b, c, tid, a_tile, b_tile, pad,
                 guard, built, round, arg_a, arg_b, arg_c, a_val, ret,
                 main_pc, i, printed, proc, ub>>
\* line 42, first half: arrive.  A barrier that was never constructed (its
\* guard overwritten with a set one) has all fields zero, and arrive()
\* divides by zero.
Arrive(w) ==
  /\ pc[w] = "arrive"
  /\ OnCore(w)
  /\ token' = [token EXCEPT ![w] = barrier.phase]
  /\ barrier' = IF barrier.count = 0 THEN barrier ELSE ArriveAt(barrier)
  /\ proc' = IF barrier.count = 0 THEN "crashed" ELSE proc
  /\ pc' = [pc EXCEPT ![w] = "wait"]
  /\ UNCHANGED <<build, launch, expected, a, b, c, tid, a_tile, b_tile, pad,
                 guard, built, round, arg_a, arg_b, arg_c, m, n, k, p, a_val,
                 ret, main_pc, i, printed, ub>>

\* line 42, second half: wait returns; lines 44-47: m, n, k = 0 and p = 0.
Wait(w) ==
  /\ pc[w] = "wait"
  /\ OnCore(w)
  /\ m' = [m EXCEPT ![w] = FragM(tid[w])]
  /\ n' = [n EXCEPT ![w] = FragN(tid[w])]
  /\ k' = [k EXCEPT ![w] = 0]
  /\ p' = [p EXCEPT ![w] = 0]
  /\ pc' = [pc EXCEPT ![w] = "load_a"]
  /\ UNCHANGED <<build, launch, expected, a, b, c, tid, a_tile, b_tile, pad,
                 guard, built, barrier, round, arg_a, arg_b, arg_c, a_val,
                 token, ret, main_pc, i, printed, proc, ub>>

\* line 48, the left operand: the read of a_tile[16 * k + m + p].
LoadA(w) ==
  /\ pc[w] = "load_a"
  /\ OnCore(w)
  /\ a_val' = [a_val EXCEPT ![w] = ReadTile("a", AIndex(k[w], m[w], p[w]))]
  /\ ub' = (ub \/ AIndex(k[w], m[w], p[w]) \notin Lanes)
  /\ pc' = [pc EXCEPT ![w] = "load_b"]
  /\ UNCHANGED <<build, launch, expected, a, b, c, tid, a_tile, b_tile, pad,
                 guard, built, barrier, round, arg_a, arg_b, arg_c, m, n, k,
                 p, token, ret, main_pc, i, printed, proc>>

\* line 48, the right operand and the sum: the read of b_tile[16 * k + n],
\* c[p] += the product (the loaded a_tile element is dead from then on);
\* lines 46-47: ++p, and ++k after the fourth p.
MulAdd(w) ==
  /\ pc[w] = "load_b"
  /\ OnCore(w)
  /\ arg_c' = [arg_c EXCEPT ![w][p[w]] =
                  FAdd(@, FMul(a_val[w], ReadTile("b", BIndex(k[w], n[w]))))]
  /\ a_val' = [a_val EXCEPT ![w] = 0]
  /\ ub' = (ub \/ BIndex(k[w], n[w]) \notin Lanes)
  /\ p' = [p EXCEPT ![w] = IF @ + 1 < 4 THEN @ + 1 ELSE 0]
  /\ k' = [k EXCEPT ![w] = IF p[w] + 1 < 4 THEN @ ELSE @ + 1]
  /\ pc' = [pc EXCEPT ![w] =
               IF p[w] + 1 < 4 \/ k[w] + 1 < 4 THEN "load_a" ELSE "ret"]
  /\ UNCHANGED <<build, launch, expected, a, b, c, tid, a_tile, b_tile, pad,
                 guard, built, barrier, round, arg_a, arg_b, m, n, token, ret,
                 main_pc, i, printed, proc>>

\* Mutant: the fragment is stored at the lane's column, c[tid % 16].
ReturnAtColumn(w) ==
  /\ pc[w] = "ret"
  /\ OnCore(w)
  /\ c' = [c EXCEPT ![CMod(tid[w], 16)] = arg_c[w]]
  /\ ret' = [ret EXCEPT ![w] = Append(@, arg_c[w])]
  /\ IF round[w] < launch.rounds
     THEN /\ round' = [round EXCEPT ![w] = @ + 1]
          /\ pc' = [pc EXCEPT ![w] = "call"]
     ELSE /\ round' = round
          /\ pc' = [pc EXCEPT ![w] = "done"]
  /\ UNCHANGED <<build, launch, expected, a, b, tid, a_tile, b_tile, pad,
                 guard, built, barrier, arg_a, arg_b, arg_c, m, n, k, p,
                 a_val, token, main_pc, i, printed, proc, ub>>
\* line 51: return c; line 58: c[tid] = the returned fragment; then the
\* worker's next kernel invocation, if the launch has one, or its end.
Return(w) ==
  /\ pc[w] = "ret"
  /\ OnCore(w)
  /\ FragStore(round[w], tid[w], arg_c[w])
  /\ ub' = (ub \/ tid[w] \notin Lanes)
  /\ ret' = [ret EXCEPT ![w] = Append(@, arg_c[w])]
  /\ IF round[w] < launch.rounds
     THEN /\ round' = [round EXCEPT ![w] = @ + 1]
          /\ pc' = [pc EXCEPT ![w] = "call"]
     ELSE /\ round' = round
          /\ pc' = [pc EXCEPT ![w] = "done"]
  /\ UNCHANGED <<build, launch, expected, tid, a_tile, b_tile, pad, guard,
                 built, barrier, arg_a, arg_b, arg_c, m, n, k, p, a_val,
                 token, main_pc, i, printed>>

LaneStep(w) ==
  \/ Start(w) \/ Invoke(w) \/ WriteA(w) \/ WriteB(w)
  \/ GuardAcquire(w) \/ FutexWait(w) \/ Construct(w) \/ GuardRelease(w)
  \/ Arrive(w) \/ Wait(w) \/ LoadA(w) \/ MulAdd(w) \/ Return(w)

MainStep == Spawn \/ Join \/ PrintResult \/ Exit

Next ==
  \/ Spawn
  \/ Join
  \/ PrintResult
  \/ Exit
  \/ \E w \in Lanes : Start(w)
  \/ \E w \in Lanes : Invoke(w)
  \/ \E w \in Lanes : WriteA(w)
  \/ \E w \in Lanes : WriteB(w)
  \/ \E w \in Lanes : GuardAcquire(w)
  \/ \E w \in Lanes : FutexWait(w)
  \/ \E w \in Lanes : Construct(w)
  \/ \E w \in Lanes : GuardRelease(w)
  \/ \E w \in Lanes : Arrive(w)
  \/ \E w \in Lanes : Wait(w)
  \/ \E w \in Lanes : LoadA(w)
  \/ \E w \in Lanes : MulAdd(w)
  \/ \E w \in Lanes : Return(w)

Spec == Init /\ [][Next]_vars

\* The steps of Next taken inside the window of MaxRunning threads: worker
\* w takes the step of position `at` when it is its turn.
Turn(w, at) == pc[w] = at /\ OnCore(w) /\ NoneBehind(w)
MainWindow == (Spawn /\ NoneBehind(i)) \/ Join \/ PrintResult \/ Exit
LaneWindow(w) == OnCore(w) /\ NoneBehind(w) /\ LaneStep(w)

NextWindow ==
  \/ Spawn /\ NoneBehind(i)
  \/ Join
  \/ PrintResult
  \/ Exit
  \/ \E w \in Lanes : Turn(w, "start") /\ Start(w)
  \/ \E w \in Lanes : Turn(w, "call") /\ Invoke(w)
  \/ \E w \in Lanes : Turn(w, "pub_a") /\ WriteA(w)
  \/ \E w \in Lanes : Turn(w, "pub_b") /\ WriteB(w)
  \/ \E w \in Lanes : Turn(w, "init") /\ GuardAcquire(w)
  \/ \E w \in Lanes : Turn(w, "futex") /\ FutexWait(w)
  \/ \E w \in Lanes : Turn(w, "construct") /\ Construct(w)
  \/ \E w \in Lanes : Turn(w, "release") /\ GuardRelease(w)
  \/ \E w \in Lanes : Turn(w, "arrive") /\ Arrive(w)
  \/ \E w \in Lanes : Turn(w, "wait") /\ Wait(w)
  \/ \E w \in Lanes : Turn(w, "load_a") /\ LoadA(w)
  \/ \E w \in Lanes : Turn(w, "load_b") /\ MulAdd(w)
  \/ \E w \in Lanes : Turn(w, "ret") /\ Return(w)

SpecWindow == Init /\ [][NextWindow]_vars

(***************************************************************************)
(* Other callers of the kernel.                                            *)
(***************************************************************************)
\* main as it is: the test matrices only.
InitMain ==
  /\ a = <<TestA>>
  /\ b = <<TestB>>
  /\ c = TestC
  /\ launch = MainLaunch(TestC)
  /\ build = BuildO0
  /\ InitCommon

\* The scheduler lets every thread that can run do so, and main too.
SpecFair ==
  /\ InitMain
  /\ [][Next]_vars
  /\ WF_vars(MainStep)
  /\ \A w \in Lanes : WF_vars(LaneStep(w))

FairWindow ==
  /\ InitMain
  /\ [][NextWindow]_vars
  /\ WF_vars(MainWindow)
  /\ \A w \in Lanes : WF_vars(LaneWindow(w))

\* Every worker issues two instructions; the operands of the second are
\* those of the first except for the operands of lane 0.
InitReuse ==
  /\ a = <<TestA, [TestA EXCEPT ![0] = @ + 1]>>
  /\ b = <<TestB, [TestB EXCEPT ![0] = @ + 2]>>
  /\ c = TestC
  /\ launch = [MainLaunch(TestC) EXCEPT !.rounds = 2]
  /\ build = BuildO0
  /\ InitCommon

SpecReuse == InitReuse /\ [][Next]_vars
ReuseWindow == InitReuse /\ [][NextWindow]_vars

\* A launch of the full cohort or of up to MaxMissing lanes fewer.
InitPartial ==
  /\ a = <<TestA>>
  /\ b = <<TestB>>
  /\ c = TestC
  /\ \E missing \in 0 .. MaxMissing :
       launch = [MainLaunch(TestC) EXCEPT
                   !.nthreads = threads_per_subgroup - missing]
  /\ build = BuildO0
  /\ InitCommon

SpecPartial == InitPartial /\ [][Next]_vars
PartialWindow == InitPartial /\ [][NextWindow]_vars

\* Lane ids outside [0, threads_per_subgroup): the two next to the range,
\* and one whose loop reads below a_tile (m = -4) and whose b_tile slot is
\* the guard variable in the layout "b_a".
BadTids == {-16, -1, threads_per_subgroup}
\* The launches with one lane id out of range: the worker that is handed
\* the id, the id and the build.  The first worker comes to line 41 while
\* the barrier is being constructed; the last one comes to it when the
\* other 63 have arrived.
BadLaunches ==
  {<<0, threads_per_subgroup, BuildO0>>,
   <<0, 0 - 16, BuildO1>>,
   <<0, 0 - 1, BuildO2>>,
   <<threads_per_subgroup - 1, 0 - 16, BuildO1>>,
   <<threads_per_subgroup - 1, 0 - 16, BuildO2>>,
   <<threads_per_subgroup - 1, threads_per_subgroup, BuildO0>>}

\* One worker is given a lane id outside the range.
InitBadLane ==
  /\ a = <<TestA>>
  /\ b = <<TestB>>
  /\ c = TestC
  /\ \E wtb \in BadLaunches :
       /\ wtb[2] \in BadTids
       /\ wtb[3] \in Builds
       /\ launch = [MainLaunch(TestC) EXCEPT !.tid_arg[wtb[1]] = wtb[2]]
       /\ build = wtb[3]
  /\ InitCommon

SpecBadLane == InitBadLane /\ [][Next]_vars
BadLaneWindow == InitBadLane /\ [][NextWindow]_vars

\* Worker 1 or the last worker calls the kernel without setting its lane id.
InitNoTid ==
  /\ a = <<TestA>>
  /\ b = <<TestB>>
  /\ c = TestC
  /\ \E w \in {1, threads_per_subgroup - 1} :
       launch = [MainLaunch(TestC) EXCEPT !.assigns[w] = FALSE]
  /\ build = BuildO0
  /\ InitCommon

SpecNoTid == InitNoTid /\ [][Next]_vars
NoTidWindow == InitNoTid /\ [][NextWindow]_vars

(***************************************************************************)
(* Properties.                                                             *)
(***************************************************************************)
\* Lane w is in the loop of lines 46-50.
InLoop(w) == pc[w] \in {"load_a", "load_b"}
PastBarrier(w) == pc[w] \in {"load_a", "load_b", "ret", "done"}
\* main is at or past the read of the result, and past it.
AfterJoin == main_pc \in {"print", "exit", "exited"}
HasPrinted == main_pc \in {"exit", "exited"}
\* The positions of line 41.
AtInit == {"init", "futex", "asleep", "construct", "release"}
Published(w) ==
  pc[w] \in AtInit \cup {"arrive", "wait", "load_a", "load_b", "ret", "done"}
AllDone == \A w \in Lanes : pc[w] = "done"

\* C1: in one instruction of the full cohort, a lane is past the barrier
\* (where its tile reads are) only when every one of the 64 lanes has
\* completed both of its tile writes, and the slots then hold what their
\* lanes supplied.
C1_NoReadBeforeAllPublished ==
  (\E w \in Lanes : PastBarrier(w)) =>
     /\ \A v \in Lanes : Published(v)
     /\ a_tile = a[1]
     /\ b_tile = b[1]

\* A lane has read tiles in the loop while another lane is still in wait.
C1_Witness ==
  \E w, v \in Lanes :
     /\ InLoop(w) /\ k[w] >= 2
     /\ pc[v] = "wait"
     /\ \A u \in Lanes : Published(u)

\* The MFMA of the claim C3, for the lane with id lane.
RefFrag(A, B, C0, lane) ==
  [pp \in Frag |->
     C0[pp]
     + A[16 * 0 + 4 * (lane \div 16) + pp] * B[16 * 0 + (lane % 16)]
     + A[16 * 1 + 4 * (lane \div 16) + pp] * B[16 * 1 + (lane % 16)]
     + A[16 * 2 + 4 * (lane \div 16) + pp] * B[16 * 2 + (lane % 16)]
     + A[16 * 3 + 4 * (lane \div 16) + pp] * B[16 * 3 + (lane % 16)]]

\* The fragment lane w is to hold after its r-th instruction.
RECURSIVE Expected(_, _)
Expected(w, r) ==
  IF r = 0 THEN launch.c_init[w]
  ELSE RefFrag(a[r], b[r], Expected(w, r - 1), w)

\* C2: with two instructions per lane on the same tiles and barrier, every
\* fragment a lane has returned is the reference MFMA of that round's
\* operands, accumulated on the fragment of the round before.
C2_ReuseRoundsCorrect ==
  \A w \in Lanes :
     \A r \in 1 .. Len(ret[w]) : ret[w][r] = Expected(w, r)

\* The launch runs on the operands of scenario sc.
InScenario(sc) ==
  /\ a[1] = InA(sc)
  /\ b[1] = InB(sc)
  /\ launch.c_init = InC(sc)

\* The reference MFMA of every lane, for the operands of each scenario.
RefFrags ==
  [sc \in Scenarios |->
     [w \in Lanes |-> RefFrag(InA(sc), InB(sc), InC(sc)[w], w)]]

\* C3: after one instruction of the full cohort, the fragment of lane i is
\* c[i][p] + sum over k of a[16k + 4(i/16) + p] * b[16k + i%16], for the
\* operands a, b, c of the launch.
C3_MfmaResult ==
  \E sc \in Scenarios :
     /\ InScenario(sc)
     /\ \A w \in Lanes :
           pc[w] = "done" =>
             /\ c[w] = RefFrags[sc][w]
             /\ ret[w] = <<c[w]>>

\* The launch has finished on operands that differ from lane to lane.
C3_Witness ==
  /\ AllDone
  /\ a[1] = SeedA(1)
  /\ \E w \in Lanes : c[w] # launch.c_init[w]

\* The matrices of print_a_matrix, print_b_matrix and print_c_matrix.
MatA(arr, row, kk) == arr[16 * kk + row]
MatB(arr, kk, col) == arr[16 * kk + col]
MatC(arr, row, col) == arr[16 * (row \div 4) + col][row % 4]

\* C4: for the test matrices of main, after the launch the C matrix is
\* C0 + A * B, a 16x16x4 matrix multiply-accumulate.
C4_IdentityScenario ==
  (/\ AfterJoin
   /\ a[1] = TestA /\ b[1] = TestB /\ launch.c_init = TestC)
  => \A row \in 0 .. 15 : \A col \in 0 .. 15 :
        MatC(c, row, col) =
          MatC(TestC, row, col)
          + MatA(TestA, row, 0) * MatB(TestB, 0, col)
          + MatA(TestA, row, 1) * MatB(TestB, 1, col)
          + MatA(TestA, row, 2) * MatB(TestB, 2, col)
          + MatA(TestA, row, 3) * MatB(TestB, 3, col)

\* main has read the result of the launch on the test matrices, and the
\* product has changed the C matrix.
C4_Witness ==
  /\ HasPrinted
  /\ a[1] = TestA /\ b[1] = TestB
  /\ MatC(c, 5, 1) = MatC(TestC, 5, 1) + 1
  /\ MatC(c, 5, 2) = MatC(TestC, 5, 2)

\* The fragment of lane t when the lanes run one after the other: every
\* lane publishes, then lane t runs its loop alone.
RECURSIVE SerialLoop(_, _, _, _, _)
SerialLoop(A, B, frag, t, kk) ==
  IF kk = 4 THEN frag
  ELSE SerialLoop(A, B,
         [pp \in Frag |->
            frag[pp] + A[AIndex(kk, FragM(t), pp)] * B[BIndex(kk, FragN(t))]],
         t, kk + 1)

\* The fragments the serial run ends with, for the operands of each
\* scenario.
SerialRun ==
  [sc \in Scenarios |->
     [t \in Lanes |-> SerialLoop(InA(sc), InB(sc), InC(sc)[t], t, 0)]]

\* C5: whatever the interleaving, every lane ends with the fragment that
\* the serial run of the same operands gives it (a finished lane's fragment
\* is final), so any two runs of a launch end with the same c.
C5_Deterministic ==
  \E sc \in Scenarios :
     /\ InScenario(sc)
     /\ \A t \in Lanes : pc[t] = "done" => c[t] = SerialRun[sc][t]

\* Every lane has stored its fragment, main has not joined yet, and the
\* fragments have changed.
C5_Witness ==
  /\ AllDone
  /\ main_pc = "launch"
  /\ \E w \in Lanes : c[w] # launch.c_init[w]

\* The grid of fragment origins.
Grid == {<<4 * q, col>> : q \in 0 .. 3, col \in 0 .. 15}

\* C6: the lanes past the barrier hold pairwise distinct (m, n), every pair
\* is in {0,4,8,12} x 0..15, and the 64 lanes cover that grid.
C6_LaneCoverage ==
  LET past == {w \in Lanes : PastBarrier(w)}
      owned == {<<m[w], n[w]>> : w \in past}
  IN  /\ owned \subseteq Grid
      /\ Cardinality(owned) = Cardinality(past)
      /\ past = Lanes => owned = Grid

\* Every lane has computed its (m, n).
C6_Witness ==
  /\ \A w \in Lanes : PastBarrier(w)
  /\ m[63] = 12 /\ n[63] = 15
  /\ m[16] = 4 /\ n[16] = 0

\* C7: a worker whose lane id is outside [0, 64) never gets to write a tile
\* slot or to arrive at the barrier: it is never beyond line 38, the write
\* of a_tile[tid].
C7_OutOfRangeStopped ==
  \A w \in Lanes :
     tid[w] \notin Lanes =>
       pc[w] \in {"unspawned", "start", "call", "aborted", "pub_a"}

\* C8: with fewer than 64 lanes launched, no lane is ever past the barrier,
\* reads a tile or returns a fragment.
C8_PartialCohortBlocked ==
  launch.nthreads < threads_per_subgroup =>
    \A w \in Lanes :
       /\ ~PastBarrier(w)
       /\ ret[w] = <<>>
       /\ c[w] = launch.c_init[w]
       /\ barrier.phase = 0

\* Every lane of a partial launch is blocked in wait.
C8_Witness ==
  /\ launch.nthreads < threads_per_subgroup
  /\ \A w \in Lanes : w < launch.nthreads => pc[w] = "wait" /\ ~Released(w)

\* C9: main reads the result only when every one of the 64 workers has
\* stored its fragment and finished, and it reads the final fragments.
C9_ReadAfterJoin ==
  /\ AfterJoin =>
        \A w \in Lanes : pc[w] = "done" /\ Len(ret[w]) = 1
  /\ HasPrinted => printed = PrintC(c)

\* main has read the result.
C9_Witness ==
  /\ HasPrinted
  /\ printed = PrintC(c)
  /\ printed[0][0] = 1

\* C10: under weak fairness of main and of every lane, every lane
\* eventually returns its fragment and the launch ends.
C10_Terminates ==
  <>(/\ \A w \in Lanes : pc[w] = "done" /\ Len(ret[w]) = 1
     /\ main_pc = "exited"
     /\ proc = "running")

\* The launch has ended.
C10_Witness ==
  /\ main_pc = "exited"
  /\ AllDone
  /\ barrier = [count |-> threads_per_subgroup, phase |-> 1]

\* The number of barrier arrivals lane w has made, and the number of its
\* waits that have returned.
Arrivals(w) ==
  IF pc[w] \in {"wait", "load_a", "load_b", "ret", "done"}
  THEN round[w] ELSE round[w] - 1
Passed(w) == IF PastBarrier(w) THEN round[w] ELSE round[w] - 1

\* C11: on the reused barrier, a lane has returned from its r-th wait only
\* when every one of the 64 lanes has made its r-th arrival: the waits a
\* lane has returned from are at most the barrier's completed phases, and
\* these are at most the arrivals of any lane.
C11_RoundsNotMixed ==
  /\ \A w \in Lanes : Passed(w) <= barrier.phase
  /\ \A v \in Lanes : barrier.phase <= Arrivals(v)

\* A fast lane has arrived for round 2 and is blocked there, while another
\* lane has not yet returned from its wait of round 1.
C11_Witness ==
  \E w, v \in Lanes :
     /\ pc[w] = "wait" /\ round[w] = 2 /\ ~Released(w)
     /\ pc[v] = "wait" /\ round[v] = 1
     /\ barrier.count < threads_per_subgroup

\* The round of the last write lane w has made to its a_tile slot and to its
\* b_tile slot; 0 before its first.
PubA(w) ==
  IF pc[w] = "pub_b" \/ Published(w) THEN round[w] ELSE round[w] - 1
PubB(w) == IF Published(w) THEN round[w] ELSE round[w] - 1

\* C12: slot j of each tile is written by lane j alone: a worker that has
\* set its lane id holds the id main gave it, its own, and at every moment
\* a_tile[j] and b_tile[j] hold the operands lane j supplied in its last
\* publish (and the initial zero before its first), whatever the other
\* lanes have done since.
C12_SlotOwnership ==
  \A j \in Lanes :
     /\ pc[j] \notin {"unspawned", "start"} => tid[j] = j
     /\ a_tile[j] = IF PubA(j) = 0 THEN 0 ELSE a[PubA(j)][j]
     /\ b_tile[j] = IF PubB(j) = 0 THEN 0 ELSE b[PubB(j)][j]

\* Lane 0 has published its operands of round 2 while another lane is
\* still in the loop of round 1 and a third has not left the barrier.
C12_Witness ==
  /\ PubA(0) = 2 /\ PubB(0) = 2
  /\ a_tile[0] = a[2][0] /\ a[2][0] # a[1][0]
  /\ b_tile[0] = b[2][0] /\ b[2][0] # b[1][0]
  /\ \E v \in Lanes : InLoop(v) /\ round[v] = 1
  /\ \E v \in Lanes : pc[v] = "wait" /\ round[v] = 1

\* The order of a worker's positions: lines 122, 58/31, 38, 39, 41 (the
\* guard, the construction by the one lane that finds the guard unset),
\* 42 (arrive, then wait), 48 (the two tile reads, in turn), 51/58.
StepOrder ==
  {<<"unspawned", "start">>, <<"start", "call">>, <<"call", "pub_a">>,
   <<"call", "aborted">>, <<"pub_a", "pub_b">>, <<"pub_b", "init">>,
   <<"init", "arrive">>, <<"init", "construct">>, <<"init", "futex">>,
   <<"futex", "init">>, <<"futex", "asleep">>, <<"asleep", "init">>,
   <<"construct", "release">>, <<"release", "arrive">>,
   <<"arrive", "wait">>, <<"wait", "load_a">>,
   <<"load_a", "load_b">>, <<"load_b", "load_a">>, <<"load_b", "ret">>,
   <<"ret", "call">>, <<"ret", "done">>}

\* Lane w takes a step.
Moves(w) == pc'[w] # pc[w] \/ round'[w] # round[w]

\* The order of the steps of a lane: it publishes (a_tile, then b_tile),
\* passes line 41, arrives at the barrier once and waits, runs the sixteen
\* iterations of the loop in the order of k and p, and returns.  The tiles
\* are written by no other step than the two of the publish, the barrier is
\* touched by no other step than the arrival (and its one construction),
\* and a lane in the loop reads only.
KernelOrder ==
  /\ \A w \in Lanes :
        Moves(w) =>
          /\ <<pc[w], pc'[w]>> \in StepOrder
          /\ pc[w] = "load_a" => k'[w] = k[w] /\ p'[w] = p[w]
          /\ pc[w] = "load_b" =>
               /\ 4 * k'[w] + p'[w] = 4 * k[w] + p[w] + 1
               /\ p'[w] \in Frag
               /\ (pc'[w] = "ret") = (k'[w] = 4)
          /\ pc[w] = "wait" =>
               k'[w] = 0 /\ p'[w] = 0 /\ token[w] # barrier.phase
  /\ a_tile' # a_tile =>
        \E w \in Lanes : pc[w] = "pub_a" /\ pc'[w] = "pub_b"
  /\ b_tile' # b_tile =>
        \E w \in Lanes : pc[w] = "pub_b" /\ pc'[w] = "init"
  /\ barrier' # barrier =>
        \E w \in Lanes :
           \/ pc[w] = "arrive" /\ pc'[w] = "wait"
           \/ pc[w] = "construct" /\ pc'[w] = "release" /\ built = 0

\* The positions of a lane inside cpu_mfma_f32_16x16x4f32, lines 38-51.
InKernel ==
  AtInit \cup {"pub_a", "pub_b", "arrive", "wait", "load_a", "load_b", "ret"}
\* Lane w is inside the kernel and cannot take a step.
Blocked(w) ==
  /\ proc = "running"
  /\ pc[w] \in InKernel
  /\ ~ENABLED LaneStep(w)

\* C13, as the claim states it: the steps of a lane occur in the order
\* publish, one barrier arrival and wait, tile reads, return; the lane is
\* blocked nowhere but in the wait of the barrier, and writes no tile after
\* the barrier.
C13_BlocksAtBarrierOnly ==
  /\ [][KernelOrder]_vars
  /\ [](\A w \in Lanes : pc[w] = "wait" \/ ~Blocked(w))

\* C13, amended: the steps of a lane occur in the order publish, one
\* barrier arrival and wait, tile reads, return, and the lane writes no
\* tile after the barrier.  It is blocked in the wait of the barrier, or at
\* line 41, asleep until the lane that is constructing the static barrier
\* has done so, and nowhere else.
C13_StepOrder ==
  /\ [][KernelOrder]_vars
  /\ [](\A w \in Lanes :
          \/ pc[w] = "wait" /\ ~Released(w)
          \/ /\ pc[w] = "asleep"
             /\ round[w] = 1
             /\ guard = "waited"
             /\ \E v \in Lanes \ {w} : pc[v] \in {"construct", "release"}
          \/ ~Blocked(w))

\* A lane has gone through both of its invocations while another lane is
\* in the loop of its second.
C13_Witness ==
  /\ pc[0] = "done" /\ Len(ret[0]) = 2
  /\ \E v \in Lanes : InLoop(v) /\ round[v] = 2 /\ k[v] = 3
  /\ built = 1

\* C14: a step of the kernel run by lane w leaves the operand arrays a and
\* b as they are, changes no fragment of c, no tile slot and no local of
\* another lane, takes its arguments from a[w], b[w] and c[w], and stores
\* its result in c[w].
C14_KernelFrame ==
  [][\A w \in Lanes :
        Moves(w) =>
          /\ a' = a /\ b' = b
          /\ \A j \in Lanes \ {w} :
                /\ c'[j] = c[j]
                /\ a_tile'[j] = a_tile[j]
                /\ b_tile'[j] = b_tile[j]
                /\ arg_c'[j] = arg_c[j]
          /\ pc[w] = "call" =>
                /\ arg_a'[w] = a[round[w]][w]
                /\ arg_b'[w] = b[round[w]][w]
                /\ arg_c'[w] = c[w]
          /\ pc[w] = "ret" => c'[w] = arg_c[w]
          /\ pc[w] # "ret" => c'[w] = c[w]]_vars

\* Lane 0 has stored its new fragment, lane 1 is still in the loop and its
\* fragment in c is the initial one.
C14_Witness ==
  /\ pc[0] = "done" /\ c[0] # launch.c_init[0]
  /\ InLoop(1) /\ arg_c[1] # c[1] /\ c[1] = launch.c_init[1]
  /\ a_tile[1] = a[1][1]

\* C15: main creates the workers 0, 1, ... in turn and 64 of them in all;
\* a worker that has got past line 122 holds its own index as lane id, from
\* then on and for good, so the ids in use are pairwise distinct, and they
\* cover 0..63 once every worker has set its id.
C15_LaneIds ==
  /\ i <= threads_per_subgroup
  /\ AfterJoin => i = threads_per_subgroup
  /\ \A w \in Lanes :
        /\ (pc[w] = "unspawned") = (w >= i)
        /\ pc[w] \notin {"unspawned", "start"} => tid[w] = w
  /\ (\A w \in Lanes : pc[w] \notin {"unspawned", "start"})
        => {tid[w] : w \in Lanes} = Lanes

\* All 64 workers have been created and have set their lane ids, and the
\* launch is still going on.
C15_Witness ==
  /\ i = threads_per_subgroup
  /\ main_pc = "launch"
  /\ \A w \in Lanes : pc[w] \notin {"unspawned", "start"}
  /\ tid[63] = 63 /\ tid[0] = 0
  /\ pc[63] = "call"

\* The tile slots the loop of a lane with locals mm and nn reads.
ASlots(mm) == {AIndex(kk, mm, pp) : kk \in 0 .. 3, pp \in Frag}
BSlots(nn) == {BIndex(kk, nn) : kk \in 0 .. 3}

\* C16: no access has fallen outside an array, and the loop of every lane
\* that is in it reads 16 different a_tile slots and 4 different b_tile
\* slots, all of them in 0..63.
C16_ReadsInBounds ==
  /\ ~ub
  /\ \A w \in Lanes :
        InLoop(w) =>
          /\ ASlots(m[w]) \subseteq Lanes
          /\ BSlots(n[w]) \subseteq Lanes
          /\ Cardinality(ASlots(m[w])) = 16
          /\ Cardinality(BSlots(n[w])) = 4

\* Lane 63 is in the last iteration of its loop, which reads the last slot
\* of each tile; lane 62 has returned.
C16_Witness ==
  /\ pc[63] = "load_b" /\ k[63] = 3 /\ p[63] = 3
  /\ AIndex(k[63], m[63], p[63]) = 63
  /\ BIndex(k[63], n[63]) = 63
  /\ a_val[63] = a_tile[63]
  /\ pc[62] = "done"
  /\ ~ub

\* The matrix elements the fragments of the lanes hold: element p of lane w
\* is row m + p, column n.
Owned == {<<m[w] + pp, n[w]>> : w \in Lanes, pp \in Frag}

\* C17: once the launch is over, the fragments tile the 16x16 matrix
\* exactly once (256 different elements, all of 0..15 x 0..15), and
\* print_c_matrix finds element (m + p, n) where lane w put it: its index
\* 4 * m + n is w, and the matrix it read has c[w][p] at that place.
C17_FragmentsTileMatrix ==
  HasPrinted =>
    /\ Owned = (0 .. 15) \X (0 .. 15)
    /\ Cardinality(Owned) = 4 * threads_per_subgroup
    /\ \A w \in Lanes :
          /\ 4 * m[w] + n[w] = w
          /\ \A pp \in Frag :
                /\ printed[m[w] + pp][n[w]] = c[w][pp]
                /\ (m[w] + pp) % 4 = pp

\* The result has been read, and the element of row 4, column 0 came from
\* lane 16, whose fragment differs from that of lane 4.
C17_Witness ==
  /\ HasPrinted
  /\ printed[4][0] = c[16][0]
  /\ c[16][0] # c[4][0]
  /\ printed[15][15] = c[63][3]

\* C18: a worker that calls the kernel without setting its lane id is not
\* rejected: its tid is the default 0, the assertion passes (nothing is
\* ever aborted), its two tile writes go to slot 0 with the operands of
\* lane 0, its result goes to c[0], and the slots and the fragment of its
\* own index stay as they were at the start.
C18_UnsetLaneIdActsAsLane0 ==
  /\ [](\A w \in Lanes :
          ~launch.assigns[w] =>
             /\ tid[w] = 0
             /\ pc[w] # "aborted" /\ proc = "running"
             /\ a_tile[w] = 0 /\ b_tile[w] = 0
             /\ c[w] = launch.c_init[w])
  /\ [][\A w \in Lanes :
          (~launch.assigns[w] /\ Moves(w)) =>
             /\ pc[w] = "call" => pc'[w] = "pub_a" /\ arg_a'[w] = a[1][0]
             /\ pc[w] = "pub_a" => a_tile' = [a_tile EXCEPT ![0] = arg_a[w]]
             /\ pc[w] = "pub_b" => b_tile' = [b_tile EXCEPT ![0] = arg_b[w]]
             /\ pc[w] = "ret" => c' = [c EXCEPT ![0] = arg_c[w]]]_vars

\* Lane 0 and a worker that never set its lane id have both written slot 0
\* of a_tile and of b_tile: the slot has two writers.
C18_Witness ==
  \E w \in Lanes \ {0} :
     /\ ~launch.assigns[w]
     /\ tid[w] = 0 /\ tid[0] = 0
     /\ PubB(w) = 1 /\ PubB(0) = 1
     /\ a_tile[0] = arg_a[w] /\ b_tile[0] = arg_b[w]
     /\ arg_a[w] = a[1][0] /\ arg_b[w] = b[1][0]

====
